---- MODULE Spec2Model ----
(***************************************************************************)
(* Token lifecycle of the FastAPI auth service: src/src/services/auth.py   *)
(* (class Auth) and src/src/routes/auth.py (the /auth routes).             *)
(*                                                                         *)
(* A token is the signed claims set: the claims that jwt.encode received   *)
(* and the key they were signed with.  A python dict is a record whose     *)
(* missing keys hold Absent, so that payload['sub'] on a dict without the  *)
(* key is the KeyError the interpreter raises.                             *)
(***************************************************************************)
EXTENDS Integers, FiniteSets, Sequences, TLC

\* ------------------------------------------------------------- bounds
MaxTicks == 1
MaxIssued == 5
MaxCalls == 4
MaxSignups == 3
MaxTags == 3

\* ------------------------------------------------------------- constants
ACCESS_EXPIRE == 150 * 60
REFRESH_EXPIRE == 7 * 24 * 3600
EMAIL_EXPIRE == 7 * 24 * 3600

Emails == {"a@x.com", "b@x.com"}
Passwords == {"pw", "other"}
SignupPasswords == {"pw"}
\* the clock moves by a second, past an access token's life, or past a
\* refresh token's life
Jumps == {1, ACCESS_EXPIRE + 1, REFRESH_EXPIRE + 1}

Absent == "<absent>"
None == "<None>"
NoDelta == 0 - 1
NoClaims == [sub |-> Absent, email |-> Absent, iat |-> 0, exp |-> 0, scope |-> Absent]
NoToken == [claims |-> NoClaims, key |-> None]
SECRET_KEY == "secret"
OTHER_KEY == "forged"

\* ------------------------------------------------------------- credential hasher
\* pwd_context.hash / pwd_context.verify: the digest embeds the plaintext it
\* was made from behind a one-way tag, and verify recomputes it.
get_password_hash(password) == [bcrypt |-> password]

verify_password(plain_password, hashed_password) ==
    hashed_password = get_password_hash(plain_password)

\* ------------------------------------------------------------- token codec
\* data = {"sub": e} and data = {"email": e}
SubData(e) == [sub |-> e, email |-> Absent]
EmailData(e) == [sub |-> Absent, email |-> e]

jwt_encode(to_encode, key) == [claims |-> to_encode, key |-> key]

\* jwt.decode: signature first, then exp against the clock; a JWTError
\* otherwise the payload.
\* variant of jwt_decode: exp is not compared with the clock
jwt_decode_no_expiry(token, key, t) ==
    IF token.key # key THEN [ok |-> FALSE, error |-> "InvalidSignature"]
    ELSE [ok |-> TRUE, payload |-> token.claims]

jwt_decode(token, key, t) ==
    IF token.key # key THEN [ok |-> FALSE, error |-> "InvalidSignature"]
    ELSE IF token.claims.exp < t THEN [ok |-> FALSE, error |-> "Expired"]
    ELSE [ok |-> TRUE, payload |-> token.claims]

\* if expires_delta: ... else: default  (0 and None are both falsy)
Expire(t, expires_delta, default) ==
    IF expires_delta # NoDelta /\ expires_delta # 0 THEN t + expires_delta ELSE t + default

create_access_token(data, expires_delta, t) ==
    jwt_encode([sub |-> data.sub, email |-> data.email, iat |-> t,
                exp |-> Expire(t, expires_delta, ACCESS_EXPIRE),
                scope |-> "access_token"], SECRET_KEY)

\* variant of create_refresh_token: the scope of an access token
create_refresh_token_access_scope(data, expires_delta, t) ==
    jwt_encode([sub |-> data.sub, email |-> data.email, iat |-> t,
                exp |-> Expire(t, expires_delta, REFRESH_EXPIRE),
                scope |-> "access_token"], SECRET_KEY)

create_refresh_token(data, expires_delta, t) ==
    jwt_encode([sub |-> data.sub, email |-> data.email, iat |-> t,
                exp |-> Expire(t, expires_delta, REFRESH_EXPIRE),
                scope |-> "refresh_token"], SECRET_KEY)

create_email_token(data, t) ==
    jwt_encode([sub |-> data.sub, email |-> data.email, iat |-> t,
                exp |-> t + EMAIL_EXPIRE, scope |-> Absent], SECRET_KEY)

\* ------------------------------------------------------------- responses
Ok(detail) == [status |-> 200, detail |-> detail]
Http(status, detail) == [status |-> status, detail |-> detail]
\* an exception no handler catches: the framework answers 500
Internal(exc) == [status |-> 500, detail |-> exc]

CredentialsException == Http(401, "Could not validate credentials")

\* decode_refresh_token: [res, email]
decode_refresh_token(token, t) ==
    LET d == jwt_decode(token, SECRET_KEY, t) IN
    IF ~d.ok THEN [res |-> CredentialsException, email |-> None]
    ELSE IF d.payload.scope = Absent THEN [res |-> Internal("KeyError: 'scope'"), email |-> None]
    ELSE IF d.payload.scope = "refresh_token"
         THEN IF d.payload.sub = Absent
              THEN [res |-> Internal("KeyError: 'sub'"), email |-> None]
              ELSE [res |-> Ok("decoded"), email |-> d.payload.sub]
    ELSE [res |-> Http(401, "Invalid scope for token"), email |-> None]

\* get_email_from_token: [res, email]
get_email_from_token(token, t) ==
    LET d == jwt_decode(token, SECRET_KEY, t) IN
    IF ~d.ok THEN [res |-> Http(422, "Invalid token for email verification"), email |-> None]
    ELSE IF d.payload.sub = Absent THEN [res |-> Internal("KeyError: 'sub'"), email |-> None]
    ELSE [res |-> Ok("decoded"), email |-> d.payload.sub]

\* ------------------------------------------------------------- user store
\* repository_users: a lookup by email over the user records
Roles == {"admin", "moderator", "user"}
NoUser ==
    [exists |-> FALSE, password |-> [bcrypt |-> None], confirmed |-> FALSE,
     refresh_token |-> NoToken, role |-> None]
\* a record as create_user makes it: the role is the default one
User(password, confirmed, tok) ==
    [exists |-> TRUE, password |-> password, confirmed |-> confirmed,
     refresh_token |-> tok, role |-> "user"]

get_user_by_email(email, us) == IF email \in DOMAIN us THEN us[email] ELSE NoUser
create_user(email, password, us) == [us EXCEPT ![email] = User(password, FALSE, NoToken)]
update_token(email, token, us) == [us EXCEPT ![email].refresh_token = token]
repository_confirmed_email(email, us) == [us EXCEPT ![email].confirmed = TRUE]

\* variant of get_current_user: a user without a stored refresh token is refused
get_current_user_needs_session(token, us, t) ==
    LET d == jwt_decode(token, SECRET_KEY, t) IN
    IF ~d.ok THEN [res |-> CredentialsException, email |-> None]
    ELSE IF d.payload.scope = Absent THEN [res |-> Internal("KeyError: 'scope'"), email |-> None]
    ELSE IF d.payload.scope = "access_token"
         THEN IF d.payload.sub = Absent
              THEN [res |-> Internal("KeyError: 'sub'"), email |-> None]
              ELSE IF \/ ~get_user_by_email(d.payload.sub, us).exists
                      \/ get_user_by_email(d.payload.sub, us).refresh_token = NoToken
                   THEN [res |-> CredentialsException, email |-> None]
                   ELSE [res |-> Ok("user"), email |-> d.payload.sub]
    ELSE [res |-> CredentialsException, email |-> None]

\* get_current_user: [res, user, email]
get_current_user(token, us, t) ==
    LET d == jwt_decode(token, SECRET_KEY, t) IN
    IF ~d.ok THEN [res |-> CredentialsException, email |-> None]
    ELSE IF d.payload.scope = Absent THEN [res |-> Internal("KeyError: 'scope'"), email |-> None]
    ELSE IF d.payload.scope = "access_token"
         THEN IF d.payload.sub = Absent
              THEN [res |-> Internal("KeyError: 'sub'"), email |-> None]
              ELSE IF ~get_user_by_email(d.payload.sub, us).exists
                   THEN [res |-> CredentialsException, email |-> None]
                   ELSE [res |-> Ok("user"), email |-> d.payload.sub]
    ELSE [res |-> CredentialsException, email |-> None]

\* ------------------------------------------------------------- routes
\* Each route is a function of its inputs, the user records and the clock:
\* [res, access, refresh, users, mail]
Reply(res, access, refresh, us, mail) ==
    [res |-> res, access |-> access, refresh |-> refresh, users |-> us, mail |-> mail]

\* variant of signup: the lookup of an existing account is skipped
signup_overwrites(email, password, us) ==
    Reply(Http(201, "User successfully created. Check your email for confirmation."),
          NoToken, NoToken,
          create_user(email, get_password_hash(password), us), {email})

signup(email, password, us) ==
    IF get_user_by_email(email, us).exists
    THEN Reply(Http(409, "Account already exists"), NoToken, NoToken, us, {})
    ELSE Reply(Http(201, "User successfully created. Check your email for confirmation."),
               NoToken, NoToken,
               create_user(email, get_password_hash(password), us), {email})

\* variant of login_check: the password is tested before the confirmed flag
login_check_password_first(user, password) ==
    IF ~user.exists THEN "Invalid email"
    ELSE IF ~verify_password(password, user.password) THEN "Invalid password"
    ELSE IF ~user.confirmed THEN "Email not confirmed"
    ELSE ""

\* variant of login_check: the two failure details are exchanged
login_check_unknown_as_password(user, password) ==
    IF ~user.exists THEN "Invalid password"
    ELSE IF ~user.confirmed THEN "Email not confirmed"
    ELSE IF ~verify_password(password, user.password) THEN "Invalid email"
    ELSE ""

\* the checks of login, in the order the route makes them; "" when all pass
login_check(user, password) ==
    IF ~user.exists THEN "Invalid email"
    ELSE IF ~user.confirmed THEN "Email not confirmed"
    ELSE IF ~verify_password(password, user.password) THEN "Invalid password"
    ELSE ""

login(email, password, us, t) ==
    LET user == get_user_by_email(email, us)
        failure == login_check(user, password)
    IN
    IF failure # "" THEN Reply(Http(401, failure), NoToken, NoToken, us, {})
    ELSE LET access == create_access_token(SubData(email), NoDelta, t)
             refresh == create_refresh_token(SubData(email), NoDelta, t)
         IN Reply(Ok("bearer"), access, refresh, update_token(email, refresh, us), {})

\* variant of stored_token_differs: the stored token is never compared
stored_token_ignored(user, token) == FALSE

\* if user.refresh_token != token
stored_token_differs_unless_empty(user, token) ==
    user.refresh_token # NoToken /\ user.refresh_token # token

stored_token_differs(user, token) == user.refresh_token # token

refresh_token(token, us, t) ==
    LET d == decode_refresh_token(token, t)
        user == get_user_by_email(d.email, us)
    IN
    IF d.res.status # 200 THEN Reply(d.res, NoToken, NoToken, us, {})
    ELSE IF ~user.exists
         THEN Reply(Internal("AttributeError: refresh_token"), NoToken, NoToken, us, {})
    ELSE IF stored_token_differs(user, token)
         THEN Reply(Http(401, "Invalid refresh token"), NoToken, NoToken,
                    update_token(d.email, NoToken, us), {})
    ELSE LET access == create_access_token(EmailData(d.email), NoDelta, t)
             refresh == create_refresh_token(EmailData(d.email), NoDelta, t)
         IN Reply(Ok("bearer"), access, refresh, update_token(d.email, refresh, us), {})

\* variant of confirmed_email: the confirmed flag is not consulted
confirmed_email_always_confirms(token, us, t) ==
    LET d == get_email_from_token(token, t)
        user == get_user_by_email(d.email, us)
    IN
    IF d.res.status # 200 THEN Reply(d.res, NoToken, NoToken, us, {})
    ELSE IF ~user.exists THEN Reply(Http(400, "Verification error"), NoToken, NoToken, us, {})
    ELSE Reply(Ok("Email confirmed"), NoToken, NoToken,
               repository_confirmed_email(d.email, us), {})

confirmed_email(token, us, t) ==
    LET d == get_email_from_token(token, t)
        user == get_user_by_email(d.email, us)
    IN
    IF d.res.status # 200 THEN Reply(d.res, NoToken, NoToken, us, {})
    ELSE IF ~user.exists THEN Reply(Http(400, "Verification error"), NoToken, NoToken, us, {})
    ELSE IF user.confirmed
         THEN Reply(Ok("Your email is already confirmed"), NoToken, NoToken, us, {})
    ELSE Reply(Ok("Email confirmed"), NoToken, NoToken,
               repository_confirmed_email(d.email, us), {})

\* variant of request_email: the mail is queued whether or not the user exists
request_email_unknown_dispatch(email, us) ==
    LET user == get_user_by_email(email, us) IN
    IF user.exists /\ user.confirmed
    THEN Reply(Ok("Your email is already confirmed"), NoToken, NoToken, us, {})
    ELSE Reply(Ok("Check your email for confirmation."), NoToken, NoToken, us, {email})

request_email(email, us) ==
    LET user == get_user_by_email(email, us) IN
    IF ~user.exists
    THEN Reply(Internal("AttributeError: confirmed"), NoToken, NoToken, us, {})
    ELSE IF user.confirmed
         THEN Reply(Ok("Your email is already confirmed"), NoToken, NoToken, us, {})
    ELSE Reply(Ok("Check your email for confirmation."), NoToken, NoToken, us, {email})

\* ------------------------------------------------------------- state
VARIABLES
    users,    \* email -> user record (NoUser where no record exists)
    now,      \* the UTC clock, in seconds
    ticks,    \* how often the clock has advanced
    issued,   \* every token handed out so far: [token, owner, flow, kind]
    tasks,    \* background_tasks: add_task(send_email, email, ...) not yet run
    last,     \* the latest call and what it returned
    calls,    \* RefreshAccess requests running concurrently, by request
    minted,   \* the latest token made by a direct call of the codec
    allowed_roles,  \* RoleAccess.allowed_roles of each gate
    reached,   \* the latest repository or crud operation a resource route ran
    db_session,   \* the session of DatabaseSessionManager.session in the current request
    committed,   \* the changes the database holds durably
    signups,   \* Signup requests running concurrently, by request
    tag_table,   \* the tags table: its rows and the next id of the sequence
    tag_result   \* the latest call of the tags repository and what it returned

vars == <<users, now, ticks, issued, tasks, last, calls, minted, allowed_roles, reached, db_session, committed, signups, tag_table, tag_result>>

\* the state of the resource routes, the session manager and the repositories
rest == <<reached, db_session, committed, signups, tag_table, tag_result>>

\* what the routes of the sequential service never touch
others == <<calls, minted, allowed_roles, rest>>

Call(op, email, password, token, r) ==
    [op |-> op, email |-> email, password |-> password, token |-> token, res |-> r.res,
     access |-> r.access, refresh |-> r.refresh]

Grant(token, owner, flow, kind) ==
    [token |-> token, owner |-> owner, flow |-> flow, kind |-> kind]

\* what a client can present: a token it was given, or claims signed with a
\* key that is not the server's
Forged == {jwt_encode(i.token.claims, OTHER_KEY) : i \in issued}
Presentable == {i.token : i \in issued} \cup Forged

\* a request that has not arrived
Idle == [pc |-> "idle", token |-> NoToken, email |-> None, differs |-> FALSE,
         afterWrite |-> FALSE, afterDetect |-> FALSE, res |-> Ok("idle"), refresh |-> NoToken]
Procs == 1 .. MaxCalls

NoMint == [kind |-> None, delta |-> NoDelta, iat |-> 0, token |-> NoToken]

\* the gates that protect routes: RoleAccess([Role.admin]) and
\* RoleAccess([Role.admin, Role.moderator])
Gates == [admin_only |-> {"admin"}, staff |-> {"admin", "moderator"}]

\* no repository or crud operation has run
NoReach == [route |-> None, token |-> NoToken, user |-> None]

\* the manager before a request enters session(): maker is whether
\* _session_maker is set, which __init__ always does
NoSession(maker) ==
    [maker |-> maker, pc |-> "idle", created |-> FALSE, closed |-> FALSE, raised |-> FALSE,
     rolled_back |-> FALSE, pending |-> {}, made |-> {}, base |-> {}]

\* a Signup request that has not arrived
NoSignup == [pc |-> "idle", email |-> None, password |-> None, res |-> Ok("idle")]
SignupProcs == 1 .. MaxSignups

\* no call of the tags repository has been made; a result is the set of rows
\* returned, empty for None and for an empty list
NoTagCall == [op |-> None, user |-> 0, tag_id |-> 0, ret |-> {}]

\* nothing has used the resource routes, the session manager or the repositories
RestIdle ==
    /\ reached = NoReach
    /\ db_session = NoSession(TRUE)
    /\ committed = {}
    /\ signups = [p \in SignupProcs |-> NoSignup]
    /\ tag_table = [rows |-> {}, next_id |-> 1]
    /\ tag_result = NoTagCall

Init ==
    /\ users = [e \in Emails |-> NoUser]
    /\ now = 0
    /\ ticks = 0
    /\ issued = {}
    /\ tasks = {}
    /\ calls = [p \in Procs |-> Idle]
    /\ minted = NoMint
    /\ allowed_roles = Gates
    /\ RestIdle
    /\ last = Call("start", None, None, NoToken, Reply(Ok("start"), NoToken, NoToken, users, {}))

Tick ==
    /\ ticks < MaxTicks
    /\ \E d \in Jumps : now' = now + d
    /\ ticks' = ticks + 1
    /\ UNCHANGED <<users, issued, tasks, last, others>>

Signup ==
    \E e \in Emails, p \in SignupPasswords :
        LET r == signup(e, p, users) IN
        /\ users' = r.users
        /\ tasks' = tasks \cup r.mail
        /\ last' = Call("signup", e, p, NoToken, r)
        /\ UNCHANGED <<now, ticks, issued, others>>

\* the background task: send_email builds the confirmation token for the
\* address and mails it
SendEmail ==
    \E e \in tasks :
        /\ tasks' = tasks \ {e}
        /\ issued' = issued \cup {Grant(create_email_token(SubData(e), now), e, "email", "email")}
        /\ Cardinality(issued') <= MaxIssued
        /\ UNCHANGED <<users, now, ticks, last, others>>

\* the mail is never delivered
DropEmail ==
    \E e \in tasks :
        /\ tasks' = tasks \ {e}
        /\ UNCHANGED <<users, now, ticks, issued, last, others>>

Login ==
    \E e \in Emails, p \in Passwords :
        LET r == login(e, p, users, now) IN
        /\ users' = r.users
        /\ issued' = IF r.res.status = 200
                     THEN issued \cup {Grant(r.access, e, "login", "access"),
                                       Grant(r.refresh, e, "login", "refresh")}
                     ELSE issued
        /\ Cardinality(issued') <= MaxIssued
        /\ last' = Call("login", e, p, NoToken, r)
        /\ UNCHANGED <<now, ticks, tasks, others>>

RefreshAccess ==
    \E i \in issued, tok \in Presentable :
        LET r == refresh_token(tok, users, now) IN
        /\ tok.claims = i.token.claims
        /\ users' = r.users
        /\ issued' = IF r.res.status = 200
                     THEN issued \cup {Grant(r.access, i.owner, "refresh", "access"),
                                       Grant(r.refresh, i.owner, "refresh", "refresh")}
                     ELSE issued
        /\ Cardinality(issued') <= MaxIssued
        /\ last' = Call("refresh_token", i.owner, None, tok, r)
        /\ UNCHANGED <<now, ticks, tasks, others>>

ConfirmEmail ==
    \E tok \in Presentable :
        LET r == confirmed_email(tok, users, now) IN
        /\ users' = r.users
        /\ last' = Call("confirmed_email", None, None, tok, r)
        /\ UNCHANGED <<now, ticks, issued, tasks, others>>

RequestEmailConfirmation ==
    \E e \in Emails :
        LET r == request_email(e, users) IN
        /\ tasks' = tasks \cup r.mail
        /\ last' = Call("request_email", e, None, NoToken, r)
        /\ UNCHANGED <<users, now, ticks, issued, others>>

GetCurrentUser ==
    \E tok \in Presentable :
        LET g == get_current_user(tok, users, now) IN
        /\ last' = Call("get_current_user", g.email, None, tok,
                         Reply(g.res, NoToken, NoToken, users, {}))
        /\ UNCHANGED <<users, now, ticks, issued, tasks, others>>

Next ==
    \/ Tick
    \/ Signup
    \/ SendEmail
    \/ DropEmail
    \/ Login
    \/ RefreshAccess
    \/ ConfirmEmail
    \/ RequestEmailConfirmation
    \/ GetCurrentUser

Spec == Init /\ [][Next]_vars

\* ------------------------------------------------------------- properties
\* a step that is a call of route op (a repeated identical call changes nothing)
CallStep(op) == last' # last /\ last'.op = op

\* RefreshAccess would answer 200 to tok, for user u
Accepts(tok, u) ==
    /\ refresh_token(tok, users, now).res.status = 200
    /\ decode_refresh_token(tok, now).email = u

\* C1: each user has at most one refresh token that RefreshAccess accepts: the
\* stored field is empty or one refresh token issued to that user, a
\* successful Login or RefreshAccess leaves the returned refresh token
\* stored, and no other token issued to that user is accepted any more.
C1_SingleRefreshToken ==
    /\ \A u \in Emails :
        /\ Cardinality({tok \in Presentable : Accepts(tok, u)}) <= 1
        /\ \/ users[u].refresh_token = NoToken
           \/ \E i \in issued : /\ i.token = users[u].refresh_token
                                /\ i.owner = u
                                /\ i.token.claims.scope = "refresh_token"
    /\ (last.op \in {"login", "refresh_token"} /\ last.res.status = 200) =>
        /\ users[last.email].refresh_token = last.refresh
        /\ \A tok \in Presentable :
            Accepts(tok, last.email) => tok = last.refresh

\* two different refresh tokens of one user exist, one stored and accepted,
\* the other superseded
C1_Witness ==
    /\ last.op = "login" /\ last.res.status = 200
    /\ Accepts(last.refresh, last.email)
    /\ \E i \in issued : /\ i.owner = last.email
                         /\ i.token.claims.scope = "refresh_token"
                         /\ i.token # last.refresh
                         /\ i.token.claims.exp >= now

\* the call changed no user record and issued no token
NothingIssuedOrStored ==
    /\ last'.access = NoToken
    /\ last'.refresh = NoToken
    /\ users' = users
    /\ issued' = issued

\* C7: Login for an existing unconfirmed user fails with "Email not
\* confirmed" for every password, the correct one included; no token is
\* issued and the stored refresh token is unchanged.
C7_UnconfirmedLoginRejected ==
    [][(/\ CallStep("login")
        /\ users[last'.email].exists
        /\ ~users[last'.email].confirmed)
       => /\ last'.res = Http(401, "Email not confirmed")
          /\ NothingIssuedOrStored]_vars

\* an unconfirmed user has logged in with the password of the account
C7_Witness ==
    /\ last.op = "login"
    /\ users[last.email].exists
    /\ ~users[last.email].confirmed
    /\ verify_password(last.password, users[last.email].password)
    /\ last.res.detail = "Email not confirmed"

\* C8: Login with an unknown email fails with "Invalid email", Login of a
\* confirmed user with a password that does not verify fails with "Invalid
\* password"; neither issues a token nor changes any user record.
C8_LoginFailuresChangeNothing ==
    [][CallStep("login") =>
        /\ ~users[last'.email].exists
            => /\ last'.res = Http(401, "Invalid email")
               /\ NothingIssuedOrStored
        /\ (/\ users[last'.email].exists
            /\ users[last'.email].confirmed
            /\ ~verify_password(last'.password, users[last'.email].password))
            => /\ last'.res = Http(401, "Invalid password")
               /\ NothingIssuedOrStored]_vars

\* a confirmed user holding a refresh token has logged in with a wrong password
C8_Witness ==
    /\ last.op = "login"
    /\ last.res.detail = "Invalid password"
    /\ users[last.email].confirmed
    /\ users[last.email].refresh_token # NoToken

\* C9: Login of a confirmed user with the correct password returns an
\* access-scoped and a refresh-scoped token, both with the user's email as
\* subject, and leaves the returned refresh token stored.
C9_LoginIssuesAndStores ==
    [][(/\ CallStep("login")
        /\ users[last'.email].exists
        /\ users[last'.email].confirmed
        /\ verify_password(last'.password, users[last'.email].password))
       => /\ last'.res.status = 200
          /\ last'.access.key = SECRET_KEY
          /\ last'.refresh.key = SECRET_KEY
          /\ last'.access.claims.scope = "access_token"
          /\ last'.refresh.claims.scope = "refresh_token"
          /\ last'.access.claims.sub = last'.email
          /\ last'.refresh.claims.sub = last'.email
          /\ users'[last'.email].refresh_token = last'.refresh
          /\ \A e \in Emails \ {last'.email} : users'[e] = users[e]]_vars

\* a login has succeeded for a user whose token had been rotated before
C9_Witness ==
    /\ last.op = "login"
    /\ last.res.status = 200
    /\ users[last.email].refresh_token = last.refresh
    /\ \E i \in issued : i.owner = last.email /\ i.flow = "refresh"

\* correctly signed and not yet expired
Valid(tok) == tok.key = SECRET_KEY /\ tok.claims.exp >= now

\* C2: RefreshAccess with a correctly signed, unexpired, refresh-scoped
\* token that differs from the stored token of the user it was issued to
\* clears the stored token and fails with 401 "Invalid refresh token", and
\* the same token is refused again afterwards.
C2_MismatchClearsAndFails ==
    [][(/\ CallStep("refresh_token")
        /\ Valid(last'.token)
        /\ last'.token.claims.scope = "refresh_token"
        /\ last'.token # users[last'.email].refresh_token)
       => /\ last'.res = Http(401, "Invalid refresh token")
          /\ users'[last'.email].refresh_token = NoToken
          /\ refresh_token(last'.token, users', now').res.status # 200]_vars

\* C3: RefreshAccess with the unexpired stored refresh token of a user
\* succeeds, whether Login or an earlier RefreshAccess stored it.
C3_StoredTokenRotates ==
    \A u \in Emails :
        (users[u].refresh_token # NoToken /\ Valid(users[u].refresh_token))
            => LET r == refresh_token(users[u].refresh_token, users, now) IN
               /\ r.res.status = 200
               /\ r.users[u].refresh_token = r.refresh
               /\ r.refresh # users[u].refresh_token

\* C4: GetCurrentUser resolves a token to a user only if the token is
\* correctly signed, unexpired, access-scoped and its subject is that
\* existing user; a refresh-scoped token, a token without scope and a token
\* whose subject is no user are answered 401.
C4_GuardAcceptsOnlyAccessTokens ==
    \A tok \in Presentable :
        LET g == get_current_user(tok, users, now) IN
        /\ g.res.status = 200
            => /\ Valid(tok)
               /\ tok.claims.scope = "access_token"
               /\ tok.claims.sub = g.email
               /\ users[g.email].exists
        /\ (\/ tok.claims.scope = "refresh_token"
            \/ tok.claims.scope = Absent
            \/ ~get_user_by_email(tok.claims.sub, users).exists)
            => g.res.status = 401

\* C5: every issued token carries sub, iat and exp, sub being the email of
\* the user it was issued for; access and refresh tokens carry their scope.
C5_IssuedClaims ==
    \A i \in issued :
        /\ i.token.claims.sub = i.owner
        /\ i.token.claims.iat \in Nat
        /\ i.token.claims.exp \in Nat
        /\ i.kind = "access" => i.token.claims.scope = "access_token"
        /\ i.kind = "refresh" => i.token.claims.scope = "refresh_token"

\* C6: an access token returned by Login or RefreshAccess for user u is
\* accepted by GetCurrentUser until it expires, and resolves to u.
C6_AccessTokenResolves ==
    \A i \in issued :
        (i.kind = "access" /\ Valid(i.token))
            => LET g == get_current_user(i.token, users, now) IN
               g.res.status = 200 /\ g.email = i.owner

\* C10: no call ends in an unclassified internal failure.
C10_NoInternalFailure == last.res.status # 500

\* C13: ConfirmEmail with a correctly signed, unexpired token whose subject
\* is an existing unconfirmed user sets confirmed and answers "Email
\* confirmed"; for a confirmed user it answers "Your email is already
\* confirmed" and changes no record; confirmed never goes back to false.
C13_ConfirmEmailIdempotent ==
    [][/\ \A e \in Emails : users[e].confirmed => users'[e].confirmed
       /\ (/\ CallStep("confirmed_email")
           /\ Valid(last'.token)
           /\ last'.token.claims.sub \in Emails
           /\ users[last'.token.claims.sub].exists)
          => LET e == last'.token.claims.sub IN
             IF users[e].confirmed
             THEN /\ last'.res = Ok("Your email is already confirmed")
                  /\ users' = users
             ELSE /\ last'.res = Ok("Email confirmed")
                  /\ users' = [users EXCEPT ![e].confirmed = TRUE]]_vars

\* a second ConfirmEmail for a confirmed user has been answered
C13_Witness ==
    /\ last.op = "confirmed_email"
    /\ last.res = Ok("Your email is already confirmed")
    /\ users[last.token.claims.sub].confirmed

\* C14: RequestEmailConfirmation for an email of no user answers the generic
\* "Check your email for confirmation." and raises no error.
C14_UnknownEmailGetsGenericReply ==
    (last.op = "request_email" /\ ~users[last.email].exists)
        => last.res = Ok("Check your email for confirmation.")

\* C15: Signup with the email of an existing user answers 409, changes no
\* record and queues no mail; Signup with a new email creates that one user
\* with the hash of the password and confirmed = false; a user logs in only
\* once a ConfirmEmail call has confirmed it.
C15_Signup ==
    [][/\ CallStep("signup") =>
            LET e == last'.email IN
            IF users[e].exists
            THEN /\ last'.res = Http(409, "Account already exists")
                 /\ users' = users
                 /\ tasks' = tasks
            ELSE /\ last'.res.status = 201
                 /\ users'[e] = User(get_password_hash(last'.password), FALSE, NoToken)
                 /\ \A o \in Emails \ {e} : users'[o] = users[o]
       /\ \A e \in Emails :
            (~users[e].confirmed /\ users'[e].confirmed)
                => last'.op = "confirmed_email" /\ last'.res = Ok("Email confirmed")
       /\ (CallStep("login") /\ last'.res.status = 200)
            => users[last'.email].confirmed]_vars

\* a Signup for an account that is already confirmed has been refused
C15_Witness ==
    /\ last.op = "signup"
    /\ last.res = Http(409, "Account already exists")
    /\ users[last.email].confirmed

\* C17: an issued token decodes to its claims at every time before exp; at
\* every time after exp decoding fails with Expired and GetCurrentUser,
\* RefreshAccess and ConfirmEmail all refuse it.
C17_ExpiryIsEnforced ==
    \A i \in issued :
        LET d == jwt_decode(i.token, SECRET_KEY, now) IN
        /\ now < i.token.claims.exp => d.ok /\ d.payload = i.token.claims
        /\ now > i.token.claims.exp
            => /\ ~d.ok
               /\ d.error = "Expired"
               /\ get_current_user(i.token, users, now).res.status # 200
               /\ refresh_token(i.token, users, now).res.status # 200
               /\ confirmed_email(i.token, users, now).res.status # 200

\* an access token of Login has been presented after its exp and refused
C17_Witness ==
    /\ last.op = "get_current_user"
    /\ last.token.key = SECRET_KEY
    /\ last.token.claims.scope = "access_token"
    /\ last.token.claims.sub \in Emails
    /\ last.token.claims.exp < now
    /\ last.res.status = 401

\* the user records with other refresh tokens stored
OtherStores ==
    LET Tokens == {NoToken} \cup {i.token : i \in issued} IN
    {[e \in Emails |-> [users[e] EXCEPT !.refresh_token = f[e]]] : f \in [Emails -> Tokens]}

\* C19: the stored token of a user is empty or refresh-scoped, and the
\* answer of GetCurrentUser to a token does not depend on the refresh
\* tokens that are stored.
C19_AccessTokensAreStateless ==
    /\ \A e \in Emails :
        \/ users[e].refresh_token = NoToken
        \/ users[e].refresh_token.claims.scope = "refresh_token"
    /\ \A tok \in Presentable, us \in OtherStores :
        get_current_user(tok, us, now) = get_current_user(tok, users, now)

\* an access token has been accepted for a user whose stored token was cleared
C19_Witness ==
    /\ last.op = "get_current_user"
    /\ last.res.status = 200
    /\ users[last.email].refresh_token = NoToken

\* C20: a mail is queued only by a Signup or RequestEmailConfirmation call,
\* one per call and for a user whose record exists; running or dropping a
\* queued mail queues nothing again and changes neither the user records
\* nor what the call returned.
C20_SendAfterCommit ==
    [][/\ \A e \in tasks' \ tasks :
            /\ users'[e].exists
            /\ last'.op \in {"signup", "request_email"}
            /\ last'.email = e
            /\ tasks' = tasks \cup {e}
       /\ tasks \ tasks' # {}
            => /\ Cardinality(tasks \ tasks') = 1
               /\ tasks' \subseteq tasks
               /\ users' = users
               /\ last' = last
       /\ \A i \in issued' \ issued :
            i.kind = "email" => users[i.owner].exists /\ i.owner \in tasks \ tasks']_vars

\* the mail of the Signup that created the user has been sent
C20_Witness ==
    /\ last.op = "signup"
    /\ last.res.status = 201
    /\ last.email \notin tasks
    /\ \E i \in issued : i.kind = "email" /\ i.owner = last.email

\* ------------------------------------------------------------- concurrent RefreshAccess
\* The route awaits between reading the user (line 91) and writing the
\* token (lines 93, 100): requests interleave at those points.  Each request
\* compares the token with the record it read.

\* user a has signed up, confirmed and logged in; the requests are yet to come
Owner == "a@x.com"
InitConc ==
    LET confirmation == create_email_token(SubData(Owner), 0)
        access == create_access_token(SubData(Owner), NoDelta, 0)
        refresh == create_refresh_token(SubData(Owner), NoDelta, 0)
    IN
    /\ users = [e \in Emails |->
                   IF e = Owner THEN User(get_password_hash("pw"), TRUE, refresh) ELSE NoUser]
    /\ now = 0
    /\ ticks = 0
    /\ issued = {Grant(confirmation, Owner, "email", "email"),
                 Grant(access, Owner, "login", "access"),
                 Grant(refresh, Owner, "login", "refresh")}
    /\ tasks = {}
    /\ last = Call("login", Owner, "pw", NoToken, Reply(Ok("bearer"), access, refresh, users, {}))
    /\ calls = [p \in Procs |-> Idle]
    /\ minted = NoMint
    /\ allowed_roles = Gates
    /\ RestIdle

\* a mismatch has been detected for user u: a request ended "Invalid refresh token"
Detected(u) ==
    \E q \in Procs : /\ calls[q].pc = "done"
                     /\ calls[q].email = u
                     /\ calls[q].res = Http(401, "Invalid refresh token")

\* request p has returned a new token pair
Returned(p) == calls[p].pc = "done" /\ calls[p].res.status = 200

\* a rotated token has been written for user u
Rotated(u) == \E q \in Procs : Returned(q) /\ calls[q].email = u

\* lines 89-92: decode, read the user, compare
RefreshRead ==
    \E p \in Procs, tok \in {i.token : i \in issued} :
        LET d == decode_refresh_token(tok, now)
            user == get_user_by_email(d.email, users)
        IN
        /\ calls[p].pc = "idle"
        /\ calls' = [calls EXCEPT ![p] =
                IF d.res.status # 200
                THEN [Idle EXCEPT !.pc = "done", !.token = tok, !.res = d.res]
                ELSE IF ~user.exists
                THEN [Idle EXCEPT !.pc = "done", !.token = tok,
                                  !.res = Internal("AttributeError: refresh_token")]
                ELSE [Idle EXCEPT !.pc = "read", !.token = tok, !.email = d.email,
                                  !.differs = stored_token_differs(user, tok),
                                  !.afterWrite = Rotated(d.email),
                                  !.afterDetect = Detected(d.email)]]
        /\ UNCHANGED <<users, now, ticks, issued, tasks, last, minted, allowed_roles, rest>>

\* lines 93-96, or lines 98-105
RefreshWrite ==
    \E p \in Procs :
        LET c == calls[p]
            access == create_access_token(EmailData(c.email), NoDelta, now)
            refresh == create_refresh_token(EmailData(c.email), NoDelta, now)
        IN
        /\ c.pc = "read"
        /\ IF c.differs
           THEN /\ users' = update_token(c.email, NoToken, users)
                /\ calls' = [calls EXCEPT ![p].pc = "done",
                                          ![p].res = Http(401, "Invalid refresh token")]
                /\ issued' = issued
           ELSE /\ users' = update_token(c.email, refresh, users)
                /\ calls' = [calls EXCEPT ![p].pc = "done", ![p].res = Ok("bearer"),
                                          ![p].refresh = refresh]
                /\ issued' = issued \cup {Grant(access, c.email, "refresh", "access"),
                                          Grant(refresh, c.email, "refresh", "refresh")}
        /\ Cardinality(issued') <= MaxIssued
        /\ UNCHANGED <<now, ticks, tasks, last, minted, allowed_roles, rest>>

TickConc ==
    /\ Tick
    /\ \E p \in Procs : calls[p].pc # "idle"

NextConc ==
    \/ RefreshRead
    \/ RefreshWrite
    \/ TickConc

SpecConc == InitConc /\ [][NextConc]_vars

\* C11 as stated: of the concurrent calls presenting the same refresh token, at
\* most two return a new token pair.
C11_AtMostTwoRotations ==
    \A tok \in {i.token : i \in issued} :
        Cardinality({p \in Procs : Returned(p) /\ calls[p].token = tok}) <= 2

\* C11 amended: every call that passed the comparison returns a new pair, and a
\* call returns one only if it read the stored token before any rotation was
\* written; how many do is bounded by the number of concurrent calls alone.
C11_RotationsAreReadsBeforeAnyWrite ==
    \A p \in Procs :
        /\ Returned(p) => ~calls[p].afterWrite
        /\ calls[p].pc = "done" /\ calls[p].email # None
               => (Returned(p) <=> ~calls[p].differs)

C11_Witness ==
    /\ \A p \in Procs : Returned(p) /\ calls[p].token = calls[1].token
    /\ users[Owner].refresh_token = calls[1].refresh

\* C12 as stated: once a mismatch was detected for user u, the stored token of u
\* stays empty and no RefreshAccess call for u returns a new pair.
C12_DetectionSticks ==
    [][\A u \in Emails : Detected(u) =>
          /\ users'[u].refresh_token = NoToken
          /\ \A p \in Procs : Returned(p)' /\ calls'[p].email = u => Returned(p)]_vars

\* C12 amended: once a mismatch was detected for user u, no call that reads the
\* stored token afterwards returns a new pair; the stored token is empty or the
\* rotated token of a call that had read before the detection.
C12_ReadsAfterDetectionFail ==
    /\ \A p \in Procs : Returned(p) => ~calls[p].afterDetect
    /\ \A u \in Emails : Detected(u) =>
          \/ users[u].refresh_token = NoToken
          \/ \E q \in Procs : /\ Returned(q)
                              /\ calls[q].email = u
                              /\ ~calls[q].afterDetect
                              /\ calls[q].refresh = users[u].refresh_token

C12_Witness ==
    /\ Detected(Owner)
    /\ users[Owner].refresh_token # NoToken
    /\ \E p \in Procs : calls[p].pc = "done" /\ calls[p].afterDetect /\ calls[p].email = Owner

\* ------------------------------------------------------------- role gate
\* variant of the membership test: every role passes
role_always_allowed(user, allowed) == TRUE

\* user.role not in self.allowed_roles, negated
role_allowed(user, allowed) == user.role \in allowed

\* RoleAccess.__call__: the dependency get_current_user runs first and its
\* failure ends the request; the two prints change nothing
RoleAccess(allowed, token, us, t) ==
    LET g == get_current_user(token, us, t) IN
    IF g.res.status # 200 THEN g
    ELSE IF ~role_allowed(get_user_by_email(g.email, us), allowed)
         THEN [res |-> Http(403, "Operation forbidden"), email |-> g.email]
         ELSE [res |-> Ok("proceed"), email |-> g.email]

\* user a signed up and confirmed the address more than a week ago; nobody
\* has logged in
InitGate ==
    /\ users = [e \in Emails |->
                   IF e = Owner THEN User(get_password_hash("pw"), TRUE, NoToken) ELSE NoUser]
    /\ now = EMAIL_EXPIRE + 1
    /\ ticks = 0
    /\ issued = {Grant(create_email_token(SubData(Owner), 0), Owner, "email", "email")}
    /\ tasks = {}
    /\ last = Call("confirmed_email", Owner, None, create_email_token(SubData(Owner), 0),
                   Reply(Ok("Email confirmed"), NoToken, NoToken, users, {}))
    /\ calls = [p \in Procs |-> Idle]
    /\ minted = NoMint
    /\ allowed_roles = Gates
    /\ RestIdle

\* the role of a user is changed outside the routes
SetRole ==
    \E e \in Emails, r \in Roles :
        /\ users[e].exists
        /\ users' = [users EXCEPT ![e].role = r]
        /\ UNCHANGED <<now, ticks, issued, tasks, last, others>>

\* a request to a route that depends on the gate
RoleGate ==
    \E gate \in DOMAIN allowed_roles, tok \in Presentable :
        LET g == RoleAccess(allowed_roles[gate], tok, users, now) IN
        /\ last' = Call(gate, g.email, None, tok, Reply(g.res, NoToken, NoToken, users, {}))
        /\ UNCHANGED <<users, now, ticks, issued, tasks, others>>

NextGate ==
    \/ Tick
    \/ Login
    \/ RefreshAccess
    \/ SetRole
    \/ RoleGate

SpecGate == InitGate /\ [][NextGate]_vars

\* the step is a call of gate, and lets the request proceed
GateStep(gate) == last' # last /\ last'.op = gate
Proceeds == last'.res.status = 200
Resolved(tok) == get_current_user(tok, users, now)
Permitted(gate, tok) ==
    /\ Resolved(tok).res.status = 200
    /\ users[Resolved(tok).email].role \in Gates[gate]

\* C16 as stated: the gate lets a request proceed only if GetCurrentUser
\* succeeded and the role of the resolved user is in the allowed set, and fails
\* with 403 otherwise; no gate call changes the allowed set or a user record.
C16_GateFailsForbiddenOtherwise ==
    [][/\ allowed_roles' = allowed_roles
       /\ \A gate \in DOMAIN Gates : GateStep(gate) =>
             /\ users' = users
             /\ Proceeds <=> Permitted(gate, last'.token)
             /\ ~Proceeds => last'.res.status = 403]_vars

\* C16 amended: the gate lets a request proceed only if GetCurrentUser
\* succeeded and the role of the resolved user is in the allowed set; it fails
\* with 403 when GetCurrentUser succeeded and the role is not in the set, and
\* with the failure of GetCurrentUser when that failed; no gate call changes
\* the allowed set or a user record.
C16_GateChecksRoleOfResolvedUser ==
    [][/\ allowed_roles' = allowed_roles
       /\ allowed_roles = Gates
       /\ \A gate \in DOMAIN Gates : GateStep(gate) =>
             /\ users' = users
             /\ Proceeds <=> Permitted(gate, last'.token)
             /\ ~Proceeds =>
                   IF Resolved(last'.token).res.status = 200
                   THEN last'.res = Http(403, "Operation forbidden")
                   ELSE last'.res = Resolved(last'.token).res]_vars

C16_Witness ==
    /\ last.op = "admin_only"
    /\ last.res = Ok("proceed")
    /\ users[Owner].role = "admin"
    /\ users[Owner].refresh_token # NoToken

\* ------------------------------------------------------------- token lifetimes
\* the overrides a caller passes as expires_delta, in seconds; NoDelta is a
\* call without the argument
Deltas == {NoDelta, 0, 1, 60, ACCESS_EXPIRE, REFRESH_EXPIRE}

\* a direct call of create_access_token, create_refresh_token or
\* create_email_token
Mint ==
    \E kind \in {"access", "refresh", "email"}, e \in Emails, d \in Deltas :
        /\ kind = "email" => d = NoDelta
        /\ minted' = [kind |-> kind, delta |-> d, iat |-> now,
                      token |-> CASE kind = "access" -> create_access_token(SubData(e), d, now)
                                  [] kind = "refresh" -> create_refresh_token(SubData(e), d, now)
                                  [] OTHER -> create_email_token(SubData(e), now)]
        /\ UNCHANGED <<users, now, ticks, issued, tasks, last, calls, allowed_roles, rest>>

NextCodec ==
    \/ Tick
    \/ Mint

SpecCodec == Init /\ [][NextCodec]_vars

\* C18: without an override an access token expires 150 minutes after it was
\* issued, a refresh token 7 days after, a confirmation token 7 days after;
\* with an override of d seconds, d = 0 included, an access or refresh token
\* expires d seconds after it was issued.
C18_Lifetimes ==
    minted.kind # None =>
        /\ minted.token.claims.iat = minted.iat
        /\ minted.token.claims.exp = minted.iat +
              (IF minted.delta # NoDelta THEN minted.delta
               ELSE IF minted.kind = "access" THEN 150 * 60
               ELSE 7 * 24 * 3600)

\* ------------------------------------------------------------- decoding failures
\* the presented token has a bad signature, has expired, or has a scope other
\* than refresh_token
FailsDecoding(tok) == ~Valid(tok) \/ tok.claims.scope # "refresh_token"

\* C24: a RefreshAccess call whose token fails decoding fails with 401 and
\* leaves every stored refresh token unchanged; a stored token is cleared only
\* when a correctly signed, unexpired, refresh-scoped token differs from it.
C24_DecodeFailureIs401 ==
    [][CallStep("refresh_token") =>
          /\ FailsDecoding(last'.token) => last'.res.status = 401 /\ users' = users
          /\ \A u \in Emails :
                users[u].refresh_token # NoToken /\ users'[u].refresh_token = NoToken
                    => /\ ~FailsDecoding(last'.token)
                       /\ last'.token # users[u].refresh_token]_vars

\* ------------------------------------------------------------- resource routes
NoteRoutes ==
    {"read_notes", "read_note", "create_note", "update_note", "update_status_note",
     "remove_note"}
ContactRoutes ==
    {"create_contact", "get_contacts", "get_contact", "update_contact", "delete_contact",
     "search_contacts", "upcoming_birthdays"}

\* OAuth2PasswordBearer: a request without a bearer token is answered 401
oauth2_scheme(token) ==
    IF token = NoToken THEN Http(401, "Not authenticated") ELSE Ok("bearer")

Reach(route, token, user) == [route |-> route, token |-> token, user |-> user]

\* a route of routes/notes.py: the dependencies run first, then the
\* repository operation, whose None becomes 404 where the route tests it
note_route(route, token, found, us, t) ==
    LET g == get_current_user(token, us, t) IN
    IF oauth2_scheme(token).status # 200
    THEN [res |-> oauth2_scheme(token), reached |-> NoReach]
    ELSE IF g.res.status # 200 THEN [res |-> g.res, reached |-> NoReach]
    ELSE [res |-> IF found \/ route \in {"read_notes", "create_note"}
                  THEN Ok(route) ELSE Http(404, "Note not found"),
          reached |-> Reach(route, token, g.email)]

\* a route of database/db.py: get_db is the only dependency
contact_route(route, token, found) ==
    [res |-> IF found \/ route \notin {"get_contact", "update_contact", "delete_contact"}
             THEN Ok(route) ELSE Http(404, "Contact not found"),
     reached |-> Reach(route, token, None)]

\* what a client sends: a token it could present, or no Authorization header
Sendable == Presentable \cup {NoToken}

NoteRequest ==
    \E route \in NoteRoutes, tok \in Sendable, found \in BOOLEAN :
        LET r == note_route(route, tok, found, users, now) IN
        /\ reached' = IF r.reached = NoReach THEN reached ELSE r.reached
        /\ last' = Call(route, r.reached.user, None, tok,
                        Reply(r.res, NoToken, NoToken, users, {}))
        /\ UNCHANGED <<users, now, ticks, issued, tasks, calls, minted, allowed_roles,
                       db_session, committed, signups, tag_table, tag_result>>

ContactRequest ==
    \E route \in ContactRoutes, tok \in Sendable, found \in BOOLEAN :
        LET r == contact_route(route, tok, found) IN
        /\ reached' = r.reached
        /\ last' = Call(route, None, None, tok, Reply(r.res, NoToken, NoToken, users, {}))
        /\ UNCHANGED <<users, now, ticks, issued, tasks, calls, minted, allowed_roles,
                       db_session, committed, signups, tag_table, tag_result>>

NextRes ==
    \/ Tick
    \/ Login
    \/ NoteRequest
    \/ ContactRequest

SpecRes == InitGate /\ [][NextRes]_vars

\* C21: a note or contact operation runs only for a request for which
\* GetCurrentUser has succeeded; a request with no token or a rejected token
\* never reaches the repository or crud operations.
C21_ResourcesNeedCurrentUser ==
    [][reached' # reached =>
          /\ reached'.token # NoToken
          /\ get_current_user(reached'.token, users, now).res.status = 200]_vars

\* ------------------------------------------------------------- database session
\* the changes a request body can make through the session
Changes == {"c1", "c2", "c3"}

\* lines 50-52: the guard, then self._session_maker()
session_enter(s, db) ==
    IF ~s.maker
    THEN [s EXCEPT !.pc = "error"]
    ELSE [s EXCEPT !.pc = "open", !.created = TRUE, !.base = db]

\* line 54 returned normally: only the finally clause runs; close() releases
\* the connection and with it whatever was not committed
session_exit(s) ==
    [s EXCEPT !.pc = "exited", !.closed = TRUE, !.pending = {}]

\* line 54 raised: print, rollback(), then the finally clause
session_exit_raising(s) ==
    [s EXCEPT !.pc = "exited", !.raised = TRUE, !.rolled_back = TRUE, !.closed = TRUE,
              !.pending = {}]

SessionEnter ==
    /\ db_session.pc = "idle"
    /\ db_session' = session_enter(db_session, committed)
    /\ UNCHANGED <<users, now, ticks, issued, tasks, last, calls, minted, allowed_roles,
                   reached, committed, signups, tag_table, tag_result>>

\* the body adds, changes or deletes a row: db.add(tag), tag.name = ..., db.delete(tag)
BodyChange ==
    \E c \in Changes :
        /\ db_session.pc = "open"
        /\ c \notin db_session.made
        /\ db_session' = [db_session EXCEPT !.pending = @ \cup {c}, !.made = @ \cup {c}]
        /\ UNCHANGED <<users, now, ticks, issued, tasks, last, calls, minted, allowed_roles,
                       reached, committed, signups, tag_table, tag_result>>

\* the body calls db.commit(), as the repository operations do
BodyCommit ==
    /\ db_session.pc = "open"
    /\ db_session.pending # {}
    /\ committed' = committed \cup db_session.pending
    /\ db_session' = [db_session EXCEPT !.pending = {}]
    /\ UNCHANGED <<users, now, ticks, issued, tasks, last, calls, minted, allowed_roles,
                   reached, signups, tag_table, tag_result>>

SessionExit ==
    /\ db_session.pc = "open"
    /\ db_session' = session_exit(db_session)
    /\ UNCHANGED <<users, now, ticks, issued, tasks, last, calls, minted, allowed_roles,
                   reached, committed, signups, tag_table, tag_result>>

SessionExitRaising ==
    /\ db_session.pc = "open"
    /\ db_session' = session_exit_raising(db_session)
    /\ UNCHANGED <<users, now, ticks, issued, tasks, last, calls, minted, allowed_roles,
                   reached, committed, signups, tag_table, tag_result>>

\* the next request asks get_db for a session
NextRequest ==
    /\ db_session.pc = "exited"
    /\ db_session' = NoSession(db_session.maker)
    /\ UNCHANGED <<users, now, ticks, issued, tasks, last, calls, minted, allowed_roles,
                   reached, committed, signups, tag_table, tag_result>>

NextSession ==
    \/ SessionEnter
    \/ BodyChange
    \/ BodyCommit
    \/ SessionExit
    \/ SessionExitRaising
    \/ NextRequest

SpecSession == Init /\ [][NextSession]_vars

\* C22: when the session context exits, the changes made in it are rolled back
\* if the body raised and committed otherwise, and the session is closed in
\* both cases; with no session maker, entering raises before a session exists.
C22_ExitCommitsOrRollsBack ==
    /\ db_session.pc = "exited" =>
          /\ db_session.closed
          /\ IF db_session.raised
             THEN db_session.rolled_back /\ committed = db_session.base
             ELSE committed = db_session.base \cup db_session.made
    /\ ~db_session.maker /\ db_session.pc # "idle" =>
          db_session.pc = "error" /\ ~db_session.created

\* ------------------------------------------------------------- concurrent Signup
\* The route awaits the lookup (line 37) and, later, the create (line 41):
\* requests interleave between the two.

\* lines 37-39
SignupLookup ==
    \E p \in SignupProcs, e \in Emails, pw \in Passwords :
        /\ signups[p].pc = "idle"
        /\ signups' = [signups EXCEPT ![p] =
                IF get_user_by_email(e, users).exists
                THEN [pc |-> "done", email |-> e, password |-> pw,
                      res |-> Http(409, "Account already exists")]
                ELSE [pc |-> "looked", email |-> e, password |-> pw, res |-> Ok("idle")]]
        /\ UNCHANGED <<users, now, ticks, issued, tasks, last, calls, minted, allowed_roles,
                       reached, db_session, committed, tag_table, tag_result>>

\* lines 40-43
SignupCreate ==
    \E p \in SignupProcs :
        LET c == signups[p] IN
        /\ c.pc = "looked"
        /\ users' = create_user(c.email, get_password_hash(c.password), users)
        /\ tasks' = tasks \cup {c.email}
        /\ signups' = [signups EXCEPT ![p].pc = "done",
                ![p].res = Http(201, "User successfully created. Check your email for confirmation.")]
        /\ UNCHANGED <<now, ticks, issued, last, calls, minted, allowed_roles,
                       reached, db_session, committed, tag_table, tag_result>>

NextSignup ==
    \/ SignupLookup
    \/ SignupCreate

SpecSignup == Init /\ [][NextSignup]_vars

\* request p has created a user
Created(p) == signups[p].pc = "done" /\ signups[p].res.status = 201

UserIds == {1, 2}
TagNames == {"x", "y"}
TagIds == 1 .. MaxTags
Skips == {0, 1}
Limits == {1, 2}

Min(a, b) == IF a < b THEN a ELSE b

\* variant of the filter: the owner is not part of it
find_tag_of_any_owner(tag_id, user_id, rows) == {row \in rows : row.id = tag_id}

\* filter(and_(Tag.id == tag_id, Tag.user_id == user.id)); id is the primary
\* key, so first() finds one row or None
find_tag(tag_id, user_id, rows) ==
    {row \in rows : row.id = tag_id /\ row.user_id = user_id}

\* filter(Tag.user_id == user.id).offset(skip).limit(limit).all(): the query
\* has no ORDER BY, so which rows fall in the window is up to the database
get_tags(skip, limit, user_id, rows) ==
    LET mine == {row \in rows : row.user_id = user_id}
        n == Cardinality(mine)
        k == IF n > skip THEN Min(limit, n - skip) ELSE 0
    IN {page \in SUBSET mine : Cardinality(page) = k}

get_tag(tag_id, user_id, rows) == find_tag(tag_id, user_id, rows)

\* Tag(name=body.name, user_id=user.id), add, commit, refresh
create_tag(name, user_id, t) ==
    LET tag == [id |-> t.next_id, name |-> name, user_id |-> user_id] IN
    [table |-> [rows |-> t.rows \cup {tag}, next_id |-> t.next_id + 1], ret |-> {tag}]

update_tag(tag_id, name, user_id, t) ==
    LET found == find_tag(tag_id, user_id, t.rows)
        renamed == {[row EXCEPT !.name = name] : row \in found}
    IN [table |-> [t EXCEPT !.rows = (t.rows \ found) \cup renamed], ret |-> renamed]

remove_tag(tag_id, user_id, t) ==
    LET found == find_tag(tag_id, user_id, t.rows) IN
    [table |-> [t EXCEPT !.rows = t.rows \ found], ret |-> found]

TagCall(op, user_id, tag_id, ret) == [op |-> op, user |-> user_id, tag_id |-> tag_id, ret |-> ret]

TagFrame ==
    UNCHANGED <<users, now, ticks, issued, tasks, last, calls, minted, allowed_roles,
                reached, db_session, committed, signups>>

GetTags ==
    \E u \in UserIds, skip \in Skips, limit \in Limits :
        \E page \in get_tags(skip, limit, u, tag_table.rows) :
            /\ tag_result' = TagCall("get_tags", u, 0, page)
            /\ UNCHANGED tag_table
            /\ TagFrame

GetTag ==
    \E u \in UserIds, id \in TagIds :
        /\ tag_result' = TagCall("get_tag", u, id, get_tag(id, u, tag_table.rows))
        /\ UNCHANGED tag_table
        /\ TagFrame

CreateTag ==
    \E u \in UserIds, name \in TagNames :
        LET r == create_tag(name, u, tag_table) IN
        /\ tag_table.next_id <= MaxTags
        /\ tag_table' = r.table
        /\ tag_result' = TagCall("create_tag", u, 0, r.ret)
        /\ TagFrame

UpdateTag ==
    \E u \in UserIds, id \in TagIds, name \in TagNames :
        LET r == update_tag(id, name, u, tag_table) IN
        /\ tag_table' = r.table
        /\ tag_result' = TagCall("update_tag", u, id, r.ret)
        /\ TagFrame

RemoveTag ==
    \E u \in UserIds, id \in TagIds :
        LET r == remove_tag(id, u, tag_table) IN
        /\ tag_table' = r.table
        /\ tag_result' = TagCall("remove_tag", u, id, r.ret)
        /\ TagFrame

NextTags ==
    \/ GetTags
    \/ GetTag
    \/ CreateTag
    \/ UpdateTag
    \/ RemoveTag

SpecTags == Init /\ [][NextTags]_vars

\* the rows of the table that do not belong to user u
OfOthers(rows, u) == {row \in rows : row.user_id # u}

\* C25: a call made for user U never returns, renames or deletes a tag of
\* another user; update_tag and remove_tag return None and change nothing when
\* the tag id does not exist or belongs to another user; create_tag gives the
\* new tag the user_id of the caller.
C25_TagsAreIsolatedPerOwner ==
    [][LET call == tag_result' IN
       /\ \A row \in call.ret : row.user_id = call.user
       /\ OfOthers(tag_table'.rows, call.user) = OfOthers(tag_table.rows, call.user)
       /\ (/\ call.op \in {"update_tag", "remove_tag"}
           /\ ~\E row \in tag_table.rows : row.id = call.tag_id /\ row.user_id = call.user)
             => call.ret = {} /\ tag_table' = tag_table
       /\ call.op = "create_tag" =>
             /\ \E row \in call.ret : row.user_id = call.user /\ row \notin tag_table.rows
             /\ tag_table'.rows = tag_table.rows \cup call.ret]_vars

C25_Witness ==
    /\ tag_result.op \in {"update_tag", "remove_tag"}
    /\ tag_result.ret = {}
    /\ \E row \in tag_table.rows : row.id = tag_result.tag_id /\ row.user_id # tag_result.user
    /\ \E row \in tag_table.rows : row.user_id = tag_result.user

====
